---- MODULE Spec2Model ----
(***************************************************************************)
(* Axial Data API (src/app.py): a FastAPI gateway in front of a Supabase   *)
(* table "data_items".  The model covers module import (the construction   *)
(* of the two Supabase clients), process launch, and the four route        *)
(* handlers.  The handlers are `async def` bodies without any await, so    *)
(* each runs to completion on the event loop: one action per handler.      *)
(* The Supabase backend and the langdetect library are the environment:    *)
(* every external call has its outcome chosen nondeterministically and is  *)
(* recorded in `calls`.                                                    *)
(***************************************************************************)
EXTENDS Integers, Sequences, FiniteSets, TLC

\* ---------------------------------------------------------------- bounds
MaxRows == 2          \* rows the table may hold before inserts are cut off
MaxLimit == 2         \* largest ?limit= value tried on GET /data

\* ------------------------------------------------------- request inputs
Sources == {"twitter"}
Contents == {"Hello world, this is English text."}
Limits == 1..MaxLimit

\* ----------------------------------------------------- external results
None == "None"
LangCodes == {"en", "sw"}
\* what detect(payload.content) can do: return a code, raise
\* LangDetectException, or raise any other exception
DetectOutcomes == LangCodes \cup {"LangDetectException", "Exception"}
InsertOutcomes == {"row", "norow", "exception"}
\* execute() on the select: response.data is a list, response.data is None,
\* or the call raises
SelectOutcomes == {"rows", "none", "exception"}

VARIABLES
  env,              \* which of the three environment variables are non-empty
  launch,           \* "main": python app.py;  "asgi": an ASGI server imports app
  phase,            \* "import" | "loaded" | "serving" | "exited"
  service_client,   \* module global: None or the client built with the service key
  supabase_client,  \* module global: None or the client built with the anon key
  table,            \* backend table data_items, in insertion order
  clock,            \* backend clock that stamps created_at
  calls,            \* external calls made by the last operation, in order
  response          \* the last HTTP response

vars == <<env, launch, phase, service_client, supabase_client, table, clock,
          calls, response>>

\* Python truthiness of a client global (a client object is truthy)
Truthy(x) == x # None

\* Python `a or b`
Or(a, b) == IF Truthy(a) THEN a ELSE b

Min(a, b) == IF a <= b THEN a ELSE b

\* seen: for a select, the rows the backend let that client read
Call(op, client, arg, result) ==
  [op |-> op, client |-> client, arg |-> arg, result |-> result,
   seen |-> <<>>]

Response(route, status, detail) ==
  [route |-> route, status |-> status, detail |-> detail,
   item |-> <<>>, data |-> <<>>, count |-> 0, connected |-> FALSE]

NoResponse == Response("none", 0, "")

Init ==
  /\ env \in [SUPABASE_URL : BOOLEAN, SUPABASE_ANON_KEY : BOOLEAN,
              SUPABASE_SERVICE_ROLE_KEY : BOOLEAN]
  /\ launch \in {"main", "asgi"}
  /\ phase = "import"
  /\ service_client = None
  /\ supabase_client = None
  /\ table = <<>>
  /\ clock = 0
  /\ calls = <<>>
  /\ response = NoResponse

\* ------------------------------------------------------------- startup
\* the external calls create_supabase_clients makes inside its try block
StartupPlan(e) ==
  <<"create_client_service", "probe_select">>
    \o (IF e.SUPABASE_ANON_KEY THEN <<"create_client_anon">> ELSE <<>>)

StartupClient(step) ==
  IF step = "create_client_anon" THEN "anon" ELSE "service"

\* the first k calls of the plan succeed; call k+1, if there is one, raises
StartupCalls(plan, k) ==
  [i \in 1..Min(k + 1, Len(plan)) |->
     Call(plan[i], StartupClient(plan[i]), "data_items",
          IF i <= k THEN "ok" ELSE "exception")]

\* variant: the except clause forgets to reset the two globals
create_supabase_clients_noreset ==
  /\ phase = "import"
  /\ IF ~(env.SUPABASE_URL /\ env.SUPABASE_SERVICE_ROLE_KEY)
     THEN /\ UNCHANGED <<service_client, supabase_client>>
          /\ calls' = <<>>
     ELSE \E k \in 0..Len(StartupPlan(env)) :
            /\ calls' = StartupCalls(StartupPlan(env), k)
            /\ service_client' = (IF k >= 1 THEN "service" ELSE None)
            /\ supabase_client' = (IF k >= 3 THEN "anon" ELSE None)
  /\ phase' = "loaded"
  /\ UNCHANGED <<env, launch, table, clock, response>>

\* variant: the anon client is built ahead of the required-variables check
\* and of the try block
create_supabase_clients_anon_first ==
  /\ phase = "import"
  /\ supabase_client' = (IF env.SUPABASE_ANON_KEY THEN "anon" ELSE None)
  /\ IF ~(env.SUPABASE_URL /\ env.SUPABASE_SERVICE_ROLE_KEY)
     THEN /\ UNCHANGED service_client
          /\ calls' = <<>>
     ELSE \E k \in 0..2 :
            /\ calls' = StartupCalls(<<"create_client_service",
                                      "probe_select">>, k)
            /\ service_client' = (IF k = 2 THEN "service" ELSE None)
  /\ phase' = "loaded"
  /\ UNCHANGED <<env, launch, table, clock, response>>

create_supabase_clients ==
  /\ phase = "import"
  /\ IF ~(env.SUPABASE_URL /\ env.SUPABASE_SERVICE_ROLE_KEY)
     THEN /\ UNCHANGED <<service_client, supabase_client>>
          /\ calls' = <<>>
     ELSE \E k \in 0..Len(StartupPlan(env)) :
            /\ calls' = StartupCalls(StartupPlan(env), k)
            /\ IF k = Len(StartupPlan(env))
               THEN /\ service_client' = "service"
                    /\ supabase_client' =
                         (IF env.SUPABASE_ANON_KEY THEN "anon" ELSE None)
               ELSE /\ service_client' = None
                    /\ supabase_client' = None
  /\ phase' = "loaded"
  /\ UNCHANGED <<env, launch, table, clock, response>>

\* values of the PORT environment variable: unset, a decimal, not a number
Ports == {"unset", "8000", "abc"}

\* int(os.getenv("PORT", 8000)) returns; otherwise it raises ValueError
port_is_int(p) == p \in {"unset", "8000"}

\* python app.py: the port is parsed first, and a PORT that is not a number
\* ends the process with ValueError; then, without a service client the
\* process ends; otherwise uvicorn.run("app:app") imports the module `app`
\* afresh and serves that
main ==
  /\ phase = "loaded"
  /\ launch = "main"
  /\ \E p \in Ports :
       IF ~port_is_int(p) \/ ~Truthy(service_client)
       THEN /\ phase' = "exited"
            /\ UNCHANGED <<launch, service_client, supabase_client, calls>>
       ELSE /\ phase' = "import"
            /\ launch' = "asgi"
            /\ service_client' = None
            /\ supabase_client' = None
            /\ calls' = <<>>
  /\ UNCHANGED <<env, table, clock, response>>

\* an ASGI server that imported the module starts routing requests to app
app ==
  /\ phase = "loaded"
  /\ launch = "asgi"
  /\ phase' = "serving"
  /\ UNCHANGED <<env, launch, service_client, supabase_client, table, clock,
                 calls, response>>

\* ------------------------------------------------------------- GET /
\* variant: the health flag reads the anon client
root_anon ==
  /\ phase = "serving"
  /\ response' = [Response("/", 200, "") EXCEPT
                    !.connected = Truthy(supabase_client)]
  /\ calls' = <<>>
  /\ UNCHANGED <<env, launch, phase, service_client, supabase_client, table,
                 clock>>

root ==
  /\ phase = "serving"
  /\ response' = [Response("/", 200, "") EXCEPT
                    !.connected = Truthy(service_client)]
  /\ calls' = <<>>
  /\ UNCHANGED <<env, launch, phase, service_client, supabase_client, table,
                 clock>>

\* ------------------------------------------------------------- GET /docs
\* the handler body; it makes no external call and assigns no global
docs_link ==
  /\ phase = "serving"
  /\ response' = Response("/docs", 200, "")
  /\ calls' = <<>>
  /\ UNCHANGED <<env, launch, phase, service_client, supabase_client, table,
                 clock>>

\* ------------------------------------------------------------- POST /ingest
\* the placeholder auto-labels
labels == <<"africa", "tech", "pending">>

\* the inner `except LangDetectException`: the detect outcomes it absorbs
Absorbed(d) == d = "LangDetectException"

\* variant: the fallback leaves the language unset
lang_null(d) == IF Absorbed(d) THEN None ELSE d

\* lang after the inner try/except, for an outcome that left the inner try
lang(d) == IF Absorbed(d) THEN "unknown" ELSE d

item(source, content, language_code) ==
  [source |-> source, content |-> content,
   language_code |-> language_code, labels |-> labels]

\* the row the backend stores and returns: the item sent plus the
\* backend-assigned id and created_at
inserted_item(it, id, created_at) ==
  [id |-> id, created_at |-> created_at, source |-> it.source,
   content |-> it.content, language_code |-> it.language_code,
   labels |-> it.labels]

\* variant: the write is an upsert that lands on the newest row
insert_upsert(rows, row) ==
  IF rows = <<>> THEN <<row>> ELSE [rows EXCEPT ![Len(rows)] = row]

\* table("data_items").insert(item).execute() when the backend accepts it
insert(rows, row) == Append(rows, row)

\* the outer try block of ingest_data and its `except Exception`
ingest_try(source, content) ==
  \E d \in DetectOutcomes :
    LET detected == Call("detect", "langdetect", content, d) IN
    IF d \notin LangCodes /\ ~Absorbed(d)
    THEN \* the detect error reaches the outer `except Exception`
         /\ response' = Response("/ingest", 500, "Ingest failed: ")
         /\ calls' = <<detected>>
         /\ UNCHANGED <<table, clock>>
    ELSE LET it == item(source, content, lang(d)) IN
         \E o \in InsertOutcomes :
           /\ calls' = <<detected, Call("insert", service_client, it, o)>>
           /\ IF o = "row"
              THEN /\ Len(table) < MaxRows
                   /\ \E dt \in {0, 1} :
                        LET row == inserted_item(it, Len(table) + 1,
                                                 clock + dt) IN
                        /\ table' = insert(table, row)
                        /\ clock' = clock + dt
                        /\ response' = [Response("/ingest", 200, "") EXCEPT
                                          !.item = <<row>>]
              ELSE \* no row returned, or the insert raised: both end in
                   \* the outer `except Exception`
                   /\ response' = Response("/ingest", 500, "Ingest failed: ")
                   /\ UNCHANGED <<table, clock>>

\* variant: the `if not service_client` check is missing
ingest_data_unguarded(source, content) ==
  /\ phase = "serving"
  /\ ingest_try(source, content)
  /\ UNCHANGED <<env, launch, phase, service_client, supabase_client>>

ingest_data(source, content) ==
  /\ phase = "serving"
  /\ IF ~Truthy(service_client)
     THEN /\ response' = Response("/ingest", 500,
                                  "Supabase service client not available")
          /\ calls' = <<>>
          /\ UNCHANGED <<table, clock>>
     ELSE ingest_try(source, content)
  /\ UNCHANGED <<env, launch, phase, service_client, supabase_client>>

\* ------------------------------------------------------------- GET /data
\* permutations of 1..n
Perms(n) == {p \in [1..n -> 1..n] : \A i, j \in 1..n : p[i] = p[j] => i = j}

\* .order("created_at", desc=...): every ordering of the rows by created_at
\* the backend may return (rows with equal created_at come in any order)
order(rows, desc) ==
  {[i \in 1..Len(rows) |-> rows[p[i]]] :
     p \in {q \in Perms(Len(rows)) :
              \A i, j \in 1..Len(rows) :
                i < j => IF desc
                         THEN rows[q[i]].created_at >= rows[q[j]].created_at
                         ELSE rows[q[i]].created_at <= rows[q[j]].created_at}}

\* .limit(n): the first n rows of the ordered result
limit_rows(rows, n) == SubSeq(rows, 1, Min(n, Len(rows)))

\* the rows of the table a client may read: the service key bypasses the
\* backend's access policy; the anon key reads whatever subset of the rows
\* the policy exposes
readable(rows, c) ==
  IF c = "service"
  THEN {rows}
  ELSE {SelectSeq(rows, LAMBDA r : r.id \in S) :
          S \in SUBSET {rows[i].id : i \in DOMAIN rows}}

\* variant: the rows are read oldest first
execute_select_asc(rows, limit) ==
  {limit_rows(s, limit) : s \in order(rows, FALSE)}

\* table("data_items").select("*").order("created_at", desc=True)
\*   .limit(limit).execute(): the possible row lists of the answer, over the
\* rows the client may read
execute_select(rows, limit) ==
  {limit_rows(s, limit) : s \in order(rows, TRUE)}

\* response.data of the select: None, or a list of rows
APIResponse(is_none, rows) == [is_none |-> is_none, rows |-> rows]

\* `response.data or []`: None and the empty list both give []
data_or_empty(r) == IF r.is_none \/ Len(r.rows) = 0 THEN <<>> ELSE r.rows

\* variant: the service client is preferred
client_service_first(anon, service) == Or(service, anon)

\* `client = supabase_client or service_client`
client(anon, service) == Or(anon, service)

\* the 200 answer of get_recent_data for a backend response
data_response(r) ==
  [Response("/data", 200, "") EXCEPT
     !.data = data_or_empty(r),
     !.count = Len(data_or_empty(r))]

\* variant: a failed query drops the client it went through
get_recent_data_drop(limit) ==
  /\ phase = "serving"
  /\ LET c == client(supabase_client, service_client) IN
     IF ~Truthy(c)
     THEN /\ response' = Response("/data", 500,
                                  "No database client available")
          /\ calls' = <<>>
          /\ UNCHANGED <<service_client, supabase_client>>
     ELSE \E o \in SelectOutcomes, v \in readable(table, c) :
            /\ calls' = <<[Call("select", c, limit, o) EXCEPT !.seen = v]>>
            /\ IF o = "exception"
               THEN /\ response' = Response("/data", 500, "Query failed: ")
                    /\ service_client' =
                         (IF c = service_client THEN None ELSE service_client)
                    /\ supabase_client' = None
               ELSE /\ UNCHANGED <<service_client, supabase_client>>
                    /\ IF o = "none"
                       THEN response' = data_response(APIResponse(TRUE, <<>>))
                       ELSE \E rows \in execute_select(v, limit) :
                              response' =
                                data_response(APIResponse(FALSE, rows))
  /\ UNCHANGED <<env, launch, phase, table, clock>>

get_recent_data(limit) ==
  /\ phase = "serving"
  /\ LET c == client(supabase_client, service_client) IN
     IF ~Truthy(c)
     THEN /\ response' = Response("/data", 500,
                                  "No database client available")
          /\ calls' = <<>>
     ELSE \E o \in SelectOutcomes, v \in readable(table, c) :
            /\ calls' = <<[Call("select", c, limit, o) EXCEPT !.seen = v]>>
            /\ IF o = "exception"
               THEN response' = Response("/data", 500, "Query failed: ")
               ELSE IF o = "none"
               THEN response' = data_response(APIResponse(TRUE, <<>>))
               ELSE \E rows \in execute_select(v, limit) :
                      response' = data_response(APIResponse(FALSE, rows))
  /\ UNCHANGED <<env, launch, phase, service_client, supabase_client, table,
                 clock>>

Next ==
  \/ create_supabase_clients
  \/ main
  \/ app
  \/ root
  \/ \E source \in Sources, content \in Contents : ingest_data(source, content)
  \/ \E limit \in Limits : get_recent_data(limit)
  \/ docs_link

Spec == Init /\ [][Next]_vars

\* =================================================================== claims
InsertCalls(cs) == {i \in DOMAIN cs : cs[i].op = "insert"}

\* C1: every POST /ingest ends in exactly one of: 200 with the persisted
\* item, the record sent having language_code a detected code or "unknown"
\* and labels exactly ["africa","tech","pending"]; or 500 with a detail.
C1_IngestTwoOutcomes ==
  response.route = "/ingest" =>
    \/ /\ response.status = 200
       /\ Len(response.item) = 1
       /\ InsertCalls(calls) # {}
       /\ \A i \in InsertCalls(calls) :
            /\ calls[i].arg.language_code \in {"en", "sw", "unknown"}
            /\ calls[i].arg.labels = <<"africa", "tech", "pending">>
    \/ /\ response.status = 500
       /\ response.detail # ""
       /\ response.item = <<>>

C1_Witness ==
  /\ response.route = "/ingest"
  /\ response.status = 200
  /\ calls[1].result = "LangDetectException"
  /\ response.item[1].language_code = "unknown"

\* C2: with the service client unset, POST /ingest answers 500 with a
\* detail, makes no insert call and leaves the table as it was; a process
\* whose URL or service key is missing always has the service client unset.
C2_IngestRefusedWithoutService ==
  /\ [](phase = "serving"
        /\ ~(env.SUPABASE_URL /\ env.SUPABASE_SERVICE_ROLE_KEY)
          => service_client = "None")
  /\ [][phase = "serving" /\ service_client = "None"
        /\ response'.route = "/ingest"
          => /\ response'.status = 500
             /\ response'.detail # ""
             /\ InsertCalls(calls') = {}
             /\ table' = table]_vars

C2_Witness ==
  /\ phase = "serving"
  /\ service_client = "None"
  /\ env.SUPABASE_URL /\ env.SUPABASE_ANON_KEY
  /\ response.route = "/ingest"
  /\ response.status = 500

\* C3: GET /data reads through the anon client when it is set, through the
\* service client when only that one is set, and answers 500 without any
\* backend call when both are unset.
C3_QueryClientChoice ==
  response.route = "/data" =>
    /\ supabase_client # "None" =>
         /\ Len(calls) = 1
         /\ calls[1].op = "select"
         /\ calls[1].client = "anon"
    /\ supabase_client = "None" /\ service_client # "None" =>
         /\ Len(calls) = 1
         /\ calls[1].op = "select"
         /\ calls[1].client = "service"
    /\ supabase_client = "None" /\ service_client = "None" =>
         /\ response.status = 500
         /\ calls = <<>>

C3_Witness ==
  /\ response.route = "/data"
  /\ response.status = 200
  /\ supabase_client = "None"
  /\ service_client = "service"
  /\ calls[1].client = "service"

\* C4 as stated: a successful GET /data?limit=N returns at most N rows, they
\* are the N most recently created rows of the table in descending
\* created_at order, count is the number of rows returned, and an empty
\* table gives data [] and count 0.
C4_RecentRows ==
  response.route = "/data" /\ response.status = 200 =>
    LET n == calls[1].arg
        data == response.data
    IN /\ Len(data) <= n
       /\ Len(data) = Min(n, Len(table))
       /\ response.count = Len(data)
       /\ \A i, j \in DOMAIN data :
            i < j => /\ data[i].created_at >= data[j].created_at
                     /\ data[i].id # data[j].id
       /\ \A i \in DOMAIN data : \E k \in DOMAIN table : table[k] = data[i]
       /\ \A k \in DOMAIN table :
            (\A i \in DOMAIN data : data[i] # table[k]) =>
              \A i \in DOMAIN data : table[k].created_at <= data[i].created_at
       /\ table = <<>> => data = <<>> /\ response.count = 0

\* C4 amended: a successful GET /data?limit=N returns at most N rows, all of
\* them rows of the table, in descending created_at order, and count is the
\* number of rows returned; when the backend answers with a row list they
\* are the N most recent of the rows the client used may read (every row for
\* the service client, the rows the access policy exposes for the anon
\* client); when the backend answers with no data the result is data [] and
\* count 0, as it is for an empty table.
C4_RecentReadableRows ==
  response.route = "/data" /\ response.status = 200 =>
    LET n == calls[1].arg
        seen == calls[1].seen
        data == response.data
    IN /\ Len(data) <= n
       /\ response.count = Len(data)
       /\ \A i, j \in DOMAIN data :
            i < j => /\ data[i].created_at >= data[j].created_at
                     /\ data[i].id # data[j].id
       /\ \A i \in DOMAIN data : \E k \in DOMAIN table : table[k] = data[i]
       /\ calls[1].client = "service" => seen = table
       /\ calls[1].result = "rows" =>
            /\ Len(data) = Min(n, Len(seen))
            /\ \A i \in DOMAIN data : \E k \in DOMAIN seen : seen[k] = data[i]
            /\ \A k \in DOMAIN seen :
                 (\A i \in DOMAIN data : data[i] # seen[k]) =>
                   \A i \in DOMAIN data :
                     seen[k].created_at <= data[i].created_at
       /\ calls[1].result = "none" => data = <<>>
       /\ table = <<>> => data = <<>> /\ response.count = 0

C4_Witness ==
  /\ response.route = "/data"
  /\ response.status = 200
  /\ calls[1].client = "anon"
  /\ calls[1].arg = 2
  /\ calls[1].result = "rows"
  /\ Len(table) = 2
  /\ table[1].created_at < table[2].created_at
  /\ calls[1].seen = <<table[1]>>
  /\ response.data = <<table[1]>>
  /\ response.count = 1

\* C5: whatever error detect raises, language_code falls back to "unknown",
\* the insert is still attempted, and a 500 comes only from the insert.
C5_AnyClassifierErrorAbsorbed ==
  response.route = "/ingest" /\ calls # <<>> /\ calls[1].op = "detect"
  /\ calls[1].result \notin LangCodes =>
    /\ Len(calls) = 2
    /\ calls[2].op = "insert"
    /\ calls[2].arg.language_code = "unknown"
    /\ response.status = 500 => calls[2].result # "row"

\* C6: create_supabase_clients always returns; without URL or service key
\* the service client stays unset; a failing create_client or probe leaves
\* both clients unset; otherwise the service client is set and the anon
\* client is set exactly when the anon key is present.
C6_StartupOutcome ==
  /\ phase \in {"import", "loaded", "serving", "exited"}
  /\ phase = "loaded" =>
       /\ ~(env.SUPABASE_URL /\ env.SUPABASE_SERVICE_ROLE_KEY) =>
            service_client = "None" /\ calls = <<>>
       /\ (\E i \in DOMAIN calls : calls[i].result = "exception") =>
            service_client = "None" /\ supabase_client = "None"
       /\ (/\ env.SUPABASE_URL /\ env.SUPABASE_SERVICE_ROLE_KEY
           /\ \A i \in DOMAIN calls : calls[i].result = "ok") =>
            /\ service_client = "service"
            /\ supabase_client # "None" <=> env.SUPABASE_ANON_KEY

C6_Witness ==
  /\ phase = "loaded"
  /\ Len(calls) = 3
  /\ calls[1].result = "ok" /\ calls[2].result = "ok"
  /\ calls[3].result = "exception"
  /\ service_client = "None" /\ supabase_client = "None"

\* C7: once requests are being served, no request changes either client
\* global.
C7_ClientsFixedWhileServing ==
  [][phase = "serving" =>
       /\ service_client' = service_client
       /\ supabase_client' = supabase_client]_vars

C7_Witness ==
  /\ phase = "serving"
  /\ response.route = "/data"
  /\ response.status = 500
  /\ calls # <<>> /\ calls[1].result = "exception"
  /\ service_client = "service" /\ supabase_client = "anon"

\* C8: GET / answers 200 in every connection state, makes no backend call,
\* changes nothing, and supabase_connected is true exactly when the service
\* client is set.
C8_HealthCheck ==
  /\ [](response.route = "/" =>
          /\ response.status = 200
          /\ calls = <<>>
          /\ response.connected <=> service_client = "service")
  /\ [][response'.route = "/" =>
          UNCHANGED <<env, launch, phase, service_client, supabase_client,
                      table, clock>>]_vars

C8_Witness ==
  /\ response.route = "/"
  /\ response.status = 200
  /\ response.connected
  /\ supabase_client = "None"

\* C9: the table only grows by appending: GET /, GET /data and GET /docs
\* write nothing, a POST /ingest makes at most one insert call and nothing
\* else that writes, a 200 from POST /ingest means exactly the returned row
\* was added, and existing rows are never changed or removed.
C9_AppendOnly ==
  [][/\ Len(table') >= Len(table)
     /\ SubSeq(table', 1, Len(table)) = table
     /\ Len(table') <= Len(table) + 1
     /\ response'.route \in {"/", "/data", "/docs"} =>
          table' = table /\ InsertCalls(calls') = {}
     /\ response'.route = "/ingest" =>
          /\ Cardinality(InsertCalls(calls')) <= 1
          /\ \A i \in DOMAIN calls' : calls'[i].op \in {"detect", "insert"}
          /\ response'.status = 200 =>
               /\ Len(response'.item) = 1
               /\ table' = Append(table, response'.item[1])]_vars

C9_Witness ==
  /\ response.route = "/ingest"
  /\ response.status = 200
  /\ Len(table) = 2
  /\ response.item[1] = table[2]

\* C10: the anon client is never set while the service client is unset, so
\* a GET /data succeeds only where GET / reports supabase_connected true.
C10_AnonImpliesService ==
  /\ supabase_client # "None" => service_client # "None"
  /\ response.route = "/data" /\ response.status = 200 =>
       service_client # "None"

C10_Witness ==
  /\ phase = "serving"
  /\ supabase_client = "anon"
  /\ service_client = "service"
  /\ response.route = "/data"
  /\ response.status = 200
====
